---- MODULE Spec2Model ----
(***************************************************************************)
(* Model of CarCrawler (src/src/data_downloader.py): the paginating driver *)
(* iterate_over_available_cars, the ThreadPoolExecutor wave of             *)
(* parse_car_page tasks it dispatches, and save_data.                      *)
(*                                                                         *)
(* The driver is one thread; every parse_car_page task is a thread of the  *)
(* pool.  Each operation on a shared container (list.append, set.add,      *)
(* set.remove, one step of the set iterator) is one atomic step, as under  *)
(* the interpreter lock; everything between two such operations can        *)
(* interleave with the other threads.                                      *)
(***************************************************************************)
EXTENDS Integers, Sequences, FiniteSets, TLC

\* ---------------------------------------------------------------- bounds
\* number of distinct listing links the site can show
NumLinks == 3
\* number of result pages the site has at most (the last one has no next link)
MaxPages == 3
\* number of listing entries the site shows over all its result pages at most
MaxListings == 4
\* the latest second datetime.now() can return in a run
MaxClock == 2
\* max_workers of iterate_over_available_cars (default 10), scaled down
max_workers == 2
\* limit of save_data (default 1000), scaled down
limit == 2
\* number of td cells a row of the attribute table has at most
MaxCells == 2
\* number of tr rows the attribute table has at most
MaxRows == 2

Links == 1..NumLinks

\* ----------------------------------------------------------------- state
VARIABLES
    listed,                   \* the site: listing entries served on result pages so far
    pc,                       \* position of the driver thread
    raised,                   \* exception propagating in the driver thread
    page,                     \* number of result pages requested so far
    page_kind,                \* what the last request for a result page produced
    next_page_html,           \* listing links on the result page last fetched
    next_page_button_html,    \* "a" when that page has a next-page anchor, "None" otherwise
    new_vehicle_links,
    processed_vehicle_links,
    broken_vehicle_links,
    vehicle_data,             \* list of records, one per successful task
    it_used,                  \* set iterator: size of the set when iter() was called
    it_yielded,               \* set iterator: elements already returned by next()
    work_queue,               \* executor's FIFO queue of submitted, not yet started links
    task,                     \* per link: position of this wave's parse_car_page task
    files,                    \* data/<timestamp>_export.pkl: timestamp -> pickled list
    broken_file,              \* data/broken_links.pkl: <<>> when absent, else <<set>>
    clock,                    \* second of the last datetime.now()
    wave,                     \* number of waves started
    wave_start,               \* history: new_vehicle_links when the wave's iteration began
    wave_appended,            \* history: links whose record this wave appended
    wave_buffer,              \* history: vehicle_data when the wave's iteration began
    observed,                 \* history: every link ever merged into new_vehicle_links
    batch_writes,             \* history: number of batch files written by the last save_data
    broken_writes,            \* history: number of broken-links files written by the last save_data
    rows,                     \* parse_common_data: the table rows the loop of line 155 has handled
    common                    \* parse_common_data: data['common'], key -> value

vars == <<listed, pc, raised, page, page_kind, next_page_html, next_page_button_html,
          new_vehicle_links, processed_vehicle_links, broken_vehicle_links,
          vehicle_data, it_used, it_yielded, work_queue, task, files,
          broken_file, clock, wave, wave_start, wave_appended, wave_buffer,
          observed, batch_writes, broken_writes, rows, common>>

driver_vars == <<listed, pc, raised, page, page_kind, next_page_html,
                 next_page_button_html>>
iter_vars   == <<it_used, it_yielded>>
set_vars    == <<new_vehicle_links, processed_vehicle_links, broken_vehicle_links>>
disk_vars   == <<files, broken_file, clock, batch_writes, broken_writes>>
hist_vars   == <<wave, wave_start, wave_buffer, observed>>
table_vars  == <<rows, common>>
crawl_vars  == <<driver_vars, set_vars, vehicle_data, iter_vars, work_queue,
                 task, disk_vars, hist_vars, wave_appended>>

\* positions of a task in which it occupies a pool thread
RunningPcs == {"l108", "l114", "l115", "l116", "l119", "l120"}
\* positions of a task that has returned (normally, through the handler, or
\* with an exception stored in its future)
FinishedPcs == {"ok", "failed", "died"}

Running == {l \in Links : task[l] \in RunningPcs}
Submitted == {l \in Links : task[l] # "idle"}

\* the record parse_car_page builds for a link
Record(l) == [link |-> l]

\* list.append.  The program never reads the order of vehicle_data (it only
\* appends, takes len() and pickles the whole list), so the list is kept in a
\* canonical order: equal contents are one state whatever the append order.
append(s, r) ==
    LET k == Cardinality({i \in 1..Len(s) : s[i].link <= r.link})
    IN  SubSeq(s, 1, k) \o <<r>> \o SubSeq(s, k + 1, Len(s))

\* what a request for a result page can produce:
\*   "next"     a page whose li.next holds an anchor
\*   "last"     a page whose li.next holds no anchor (find('a') is None)
\*   "nonextli" a page without li.next: None.find raises AttributeError
\*   "neterr"   requests.get raises
PageKinds == {"next", "last", "nonextli", "neterr"}

\* lines 43-49: the state in which iterate_over_available_cars starts
CrawlInit ==
    /\ listed = 0
    /\ pc = "start"
    /\ raised = "none"
    /\ page = 0
    /\ page_kind = "none"
    /\ next_page_html = {}
    /\ next_page_button_html = "None"
    /\ new_vehicle_links = {}
    /\ processed_vehicle_links = {}
    /\ broken_vehicle_links = {}
    /\ vehicle_data = <<>>
    /\ it_used = 0
    /\ it_yielded = {}
    /\ work_queue = <<>>
    /\ task = [l \in Links |-> "idle"]
    /\ files = <<>>
    /\ broken_file = <<>>
    /\ clock = 0
    /\ wave = 0
    /\ wave_start = {}
    /\ wave_appended = {}
    /\ wave_buffer = <<>>
    /\ observed = {}
    /\ batch_writes = 0
    /\ broken_writes = 0

Init ==
    /\ CrawlInit
    /\ rows = <<>>
    /\ common = <<>>

\* ---------------------------------------------------------------- driver
\* FetchPage with the failure of a later request swallowed: the loop is left
\* as if the last page had been reached
FetchPage_later_failure_swallowed(where) ==
    /\ page < MaxPages
    /\ page' = page + 1
    /\ \E kind \in PageKinds, links \in SUBSET Links :
          /\ kind = "next" => page + 1 < MaxPages
          /\ kind \in {"neterr", "nonextli"} => links = {}
          /\ listed + Cardinality(links) <= MaxListings
          /\ listed' = listed + Cardinality(links)
          /\ page_kind' = kind
          /\ IF kind \in {"neterr", "nonextli"}
             THEN /\ pc' = IF where = "next_page_fetch" THEN "done" ELSE "aborted"
                  /\ raised' = where
                  /\ UNCHANGED <<next_page_html, next_page_button_html>>
             ELSE /\ pc' = "loop"
                  /\ raised' = raised
                  /\ next_page_html' = links
                  /\ next_page_button_html' = IF kind = "next" THEN "a" ELSE "None"

\* lines 50-51 and 72-73: request a result page and look for its next button
FetchPage(where) ==
    /\ page < MaxPages
    /\ page' = page + 1
    /\ \E kind \in PageKinds, links \in SUBSET Links :
          \* the site is finite: its last page has no next link, and it
          \* shows MaxListings entries at most
          /\ kind = "next" => page + 1 < MaxPages
          /\ kind \in {"neterr", "nonextli"} => links = {}
          /\ listed + Cardinality(links) <= MaxListings
          /\ listed' = listed + Cardinality(links)
          /\ page_kind' = kind
          /\ IF kind \in {"neterr", "nonextli"}
             THEN /\ pc' = "aborted"
                  /\ raised' = where
                  /\ UNCHANGED <<next_page_html, next_page_button_html>>
             ELSE /\ pc' = "loop"
                  /\ raised' = raised
                  /\ next_page_html' = links
                  /\ next_page_button_html' = IF kind = "next" THEN "a" ELSE "None"

\* lines 49-51
first_page ==
    /\ pc = "start"
    /\ FetchPage("first_page_fetch")
    /\ UNCHANGED <<set_vars, vehicle_data, iter_vars, work_queue, task,
                   disk_vars, hist_vars, wave_appended>>
    /\ UNCHANGED table_vars

\* loop_exit followed by a last, unconditional flush of the buffer and of
\* the broken links
loop_exit_final_flush ==
    /\ pc = "loop"
    /\ next_page_button_html = "None"
    /\ pc' = "done"
    /\ \E now \in clock..MaxClock :
          /\ clock' = now
          /\ files' = [t \in (DOMAIN files) \cup {now} |->
                          IF t = now THEN vehicle_data ELSE files[t]]
    /\ broken_file' = <<broken_vehicle_links>>
    /\ vehicle_data' = <<>>
    /\ batch_writes' = 1
    /\ broken_writes' = 1
    /\ UNCHANGED <<listed, raised, page, page_kind, next_page_html,
                   next_page_button_html, set_vars, iter_vars, work_queue,
                   task, hist_vars, wave_appended>>
    /\ UNCHANGED table_vars

\* line 54, the loop is left
loop_exit ==
    /\ pc = "loop"
    /\ next_page_button_html = "None"
    /\ pc' = "done"
    /\ UNCHANGED <<listed, raised, page, page_kind, next_page_html, next_page_button_html,
                   set_vars, vehicle_data, iter_vars, work_queue, task,
                   disk_vars, hist_vars, wave_appended>>
    /\ UNCHANGED table_vars

\* line 58: new_vehicle_links.update( links of the page )
MergedLinks == new_vehicle_links \cup next_page_html

\* merge_links without the loop test of line 54: the body also runs for a
\* page that has no next button
merge_links_without_loop_test ==
    /\ pc = "loop"
    /\ new_vehicle_links' = MergedLinks
    /\ it_used' = Cardinality(MergedLinks)
    /\ it_yielded' = {}
    /\ work_queue' = <<>>
    /\ task' = [l \in Links |-> "idle"]
    /\ wave' = wave + 1
    /\ wave_start' = MergedLinks
    /\ wave_appended' = {}
    /\ wave_buffer' = vehicle_data
    /\ observed' = observed \cup MergedLinks
    /\ pc' = "dispatch"
    /\ UNCHANGED <<listed, raised, page, page_kind, next_page_html,
                   next_page_button_html, processed_vehicle_links,
                   broken_vehicle_links, vehicle_data, disk_vars>>
    /\ UNCHANGED table_vars

\* lines 54-62: the loop is entered, the page's links are merged, the
\* executor is created and the iteration over new_vehicle_links begins
merge_links ==
    /\ pc = "loop"
    /\ next_page_button_html # "None"
    /\ new_vehicle_links' = MergedLinks
    /\ it_used' = Cardinality(MergedLinks)
    /\ it_yielded' = {}
    /\ work_queue' = <<>>
    /\ task' = [l \in Links |-> "idle"]
    /\ wave' = wave + 1
    /\ wave_start' = MergedLinks
    /\ wave_appended' = {}
    /\ wave_buffer' = vehicle_data
    /\ observed' = observed \cup MergedLinks
    /\ pc' = "dispatch"
    /\ UNCHANGED <<listed, raised, page, page_kind, next_page_html, next_page_button_html,
                   processed_vehicle_links, broken_vehicle_links,
                   vehicle_data, disk_vars>>
    /\ UNCHANGED table_vars

\* the size check at the head of the set iterator's next()
SetChanged == it_used # Cardinality(new_vehicle_links)

\* lines 62-63: one turn of the for loop: next() on the set iterator, then
\* executor.submit
submit_next ==
    /\ pc = "dispatch"
    /\ IF SetChanged
       THEN \* RuntimeError: Set changed size during iteration
            /\ pc' = "exit"
            /\ raised' = "set_changed_size"
            /\ UNCHANGED <<it_yielded, work_queue, task>>
       ELSE IF new_vehicle_links \subseteq it_yielded
       THEN \* StopIteration: the with block is left normally
            /\ pc' = "exit"
            /\ UNCHANGED <<raised, it_yielded, work_queue, task>>
       ELSE \E l \in new_vehicle_links \ it_yielded :
            /\ it_yielded' = it_yielded \cup {l}
            /\ work_queue' = Append(work_queue, l)
            /\ task' = [task EXCEPT ![l] = "queued"]
            /\ UNCHANGED <<pc, raised>>
    /\ UNCHANGED <<listed, page, page_kind, next_page_html,
                   next_page_button_html, set_vars,
                   vehicle_data, it_used, disk_vars, hist_vars, wave_appended>>
    /\ UNCHANGED table_vars

\* every submitted task has returned
PoolDrained == work_queue = <<>> /\ Running = {}

\* executor_exit that does not wait for the tasks (shutdown(wait=False))
executor_exit_no_wait ==
    /\ pc = "exit"
    /\ pc' = IF raised = "none" THEN "save" ELSE "aborted"
    /\ UNCHANGED <<listed, raised, page, page_kind, next_page_html, next_page_button_html,
                   set_vars, vehicle_data, iter_vars, work_queue, task,
                   disk_vars, hist_vars, wave_appended>>
    /\ UNCHANGED table_vars

\* line 61, __exit__ of the with block: shutdown(wait=True), then the
\* pending exception, if any, propagates
executor_exit ==
    /\ pc = "exit"
    /\ PoolDrained
    /\ pc' = IF raised = "none" THEN "save" ELSE "aborted"
    /\ UNCHANGED <<listed, raised, page, page_kind, next_page_html, next_page_button_html,
                   set_vars, vehicle_data, iter_vars, work_queue, task,
                   disk_vars, hist_vars, wave_appended>>
    /\ UNCHANGED table_vars

\* save_data with the test of line 81 written as > instead of >=
save_data_strict_limit ==
    /\ pc = "save"
    /\ pc' = "fetch"
    /\ IF Len(vehicle_data) > limit
       THEN \E now \in clock..MaxClock :
            /\ clock' = now
            /\ files' = [t \in (DOMAIN files) \cup {now} |->
                            IF t = now THEN vehicle_data ELSE files[t]]
            /\ broken_file' = <<broken_vehicle_links>>
            /\ vehicle_data' = <<>>
            /\ batch_writes' = 1
            /\ broken_writes' = 1
       ELSE /\ batch_writes' = 0
            /\ broken_writes' = 0
            /\ UNCHANGED <<files, broken_file, clock, vehicle_data>>
    /\ UNCHANGED <<listed, raised, page, page_kind, next_page_html, next_page_button_html,
                   set_vars, iter_vars, work_queue, task, hist_vars,
                   wave_appended>>
    /\ UNCHANGED table_vars

\* save_data without line 96: the buffer is written but not emptied
save_data_keeps_buffer ==
    /\ pc = "save"
    /\ pc' = "fetch"
    /\ IF Len(vehicle_data) >= limit
       THEN \E now \in clock..MaxClock :
            /\ clock' = now
            /\ files' = [t \in (DOMAIN files) \cup {now} |->
                            IF t = now THEN vehicle_data ELSE files[t]]
            /\ broken_file' = <<broken_vehicle_links>>
            /\ vehicle_data' = vehicle_data
            /\ batch_writes' = 1
            /\ broken_writes' = 1
       ELSE /\ batch_writes' = 0
            /\ broken_writes' = 0
            /\ UNCHANGED <<files, broken_file, clock, vehicle_data>>
    /\ UNCHANGED <<listed, raised, page, page_kind, next_page_html, next_page_button_html,
                   set_vars, iter_vars, work_queue, task, hist_vars,
                   wave_appended>>
    /\ UNCHANGED table_vars

\* save_data that empties broken_vehicle_links once it has pickled the set
save_data_clears_broken ==
    /\ pc = "save"
    /\ pc' = "fetch"
    /\ IF Len(vehicle_data) >= limit
       THEN \E now \in clock..MaxClock :
            /\ clock' = now
            /\ files' = [t \in (DOMAIN files) \cup {now} |->
                            IF t = now THEN vehicle_data ELSE files[t]]
            /\ broken_file' = <<broken_vehicle_links>>
            /\ vehicle_data' = <<>>
            /\ batch_writes' = 1
            /\ broken_writes' = 1
            /\ broken_vehicle_links' = {}
            /\ UNCHANGED <<new_vehicle_links, processed_vehicle_links>>
       ELSE /\ batch_writes' = 0
            /\ broken_writes' = 0
            /\ UNCHANGED <<files, broken_file, clock, vehicle_data>>
            /\ UNCHANGED set_vars
    /\ UNCHANGED <<listed, raised, page, page_kind, next_page_html,
                   next_page_button_html, iter_vars, work_queue, task,
                   hist_vars, wave_appended>>
    /\ UNCHANGED table_vars

\* save_data that pickles only the links broken in the wave just finished
save_data_writes_wave_broken ==
    /\ pc = "save"
    /\ pc' = "fetch"
    /\ IF Len(vehicle_data) >= limit
       THEN \E now \in clock..MaxClock :
            /\ clock' = now
            /\ files' = [t \in (DOMAIN files) \cup {now} |->
                            IF t = now THEN vehicle_data ELSE files[t]]
            /\ broken_file' = <<broken_vehicle_links \cap wave_start>>
            /\ vehicle_data' = <<>>
            /\ batch_writes' = 1
            /\ broken_writes' = 1
            /\ UNCHANGED set_vars
       ELSE /\ batch_writes' = 0
            /\ broken_writes' = 0
            /\ UNCHANGED <<files, broken_file, clock, vehicle_data>>
            /\ UNCHANGED set_vars
    /\ UNCHANGED <<listed, raised, page, page_kind, next_page_html,
                   next_page_button_html, iter_vars, work_queue, task,
                   hist_vars, wave_appended>>
    /\ UNCHANGED table_vars

\* lines 75-96, called at line 67
save_data ==
    /\ pc = "save"
    /\ pc' = "fetch"
    /\ IF Len(vehicle_data) >= limit
       THEN \E now \in clock..MaxClock :
            /\ clock' = now
            /\ files' = [t \in (DOMAIN files) \cup {now} |->
                            IF t = now THEN vehicle_data ELSE files[t]]
            /\ broken_file' = <<broken_vehicle_links>>
            /\ vehicle_data' = <<>>
            /\ batch_writes' = 1
            /\ broken_writes' = 1
       ELSE /\ batch_writes' = 0
            /\ broken_writes' = 0
            /\ UNCHANGED <<files, broken_file, clock, vehicle_data>>
    /\ UNCHANGED <<listed, raised, page, page_kind, next_page_html, next_page_button_html,
                   set_vars, iter_vars, work_queue, task, hist_vars,
                   wave_appended>>
    /\ UNCHANGED table_vars

\* lines 70-73
next_page ==
    /\ pc = "fetch"
    /\ FetchPage("next_page_fetch")
    /\ UNCHANGED <<set_vars, vehicle_data, iter_vars, work_queue, task,
                   disk_vars, hist_vars, wave_appended>>
    /\ UNCHANGED table_vars

\* ------------------------------------------------------------ pool, tasks
\* worker_start of a pool that starts a thread for every work item
worker_start_unbounded ==
    /\ work_queue # <<>>
    /\ task' = [task EXCEPT ![Head(work_queue)] = "l108"]
    /\ work_queue' = Tail(work_queue)
    /\ UNCHANGED <<driver_vars, set_vars, vehicle_data, iter_vars, disk_vars,
                   hist_vars, wave_appended>>
    /\ UNCHANGED table_vars

\* a pool thread takes the oldest work item; the pool has max_workers threads
worker_start ==
    /\ work_queue # <<>>
    /\ Cardinality(Running) < max_workers
    /\ task' = [task EXCEPT ![Head(work_queue)] = "l108"]
    /\ work_queue' = Tail(work_queue)
    /\ UNCHANGED <<driver_vars, set_vars, vehicle_data, iter_vars, disk_vars,
                   hist_vars, wave_appended>>
    /\ UNCHANGED table_vars

\* lines 105-112: the request and the four parse_* calls either all succeed
\* or one of them raises
parse_car_page_fetch(l) ==
    /\ task[l] = "l108"
    /\ \E ok \in BOOLEAN :
          task' = [task EXCEPT ![l] = IF ok THEN "l114" ELSE "l119"]
    /\ UNCHANGED <<driver_vars, set_vars, vehicle_data, iter_vars, work_queue,
                   disk_vars, hist_vars, wave_appended>>
    /\ UNCHANGED table_vars

\* parse_car_page_append as a lost update: the record is added to a copy of
\* the list taken when the wave began and the copy is stored back
parse_car_page_append_lost_update(l) ==
    /\ task[l] = "l114"
    /\ vehicle_data' = append(wave_buffer, Record(l))
    /\ wave_appended' = wave_appended \cup {l}
    /\ task' = [task EXCEPT ![l] = "l115"]
    /\ UNCHANGED <<driver_vars, set_vars, iter_vars, work_queue, disk_vars,
                   hist_vars>>
    /\ UNCHANGED table_vars

\* line 114
parse_car_page_append(l) ==
    /\ task[l] = "l114"
    /\ vehicle_data' = append(vehicle_data, Record(l))
    /\ wave_appended' = wave_appended \cup {l}
    /\ task' = [task EXCEPT ![l] = "l115"]
    /\ UNCHANGED <<driver_vars, set_vars, iter_vars, work_queue, disk_vars,
                   hist_vars>>
    /\ UNCHANGED table_vars

\* line 115
parse_car_page_add_processed(l) ==
    /\ task[l] = "l115"
    /\ processed_vehicle_links' = processed_vehicle_links \cup {l}
    /\ task' = [task EXCEPT ![l] = "l116"]
    /\ UNCHANGED <<driver_vars, new_vehicle_links, broken_vehicle_links,
                   vehicle_data, iter_vars, work_queue, disk_vars, hist_vars,
                   wave_appended>>
    /\ UNCHANGED table_vars

\* line 116: set.remove raises KeyError on a missing element, which the
\* handler of line 118 catches
parse_car_page_remove_new(l) ==
    /\ task[l] = "l116"
    /\ IF l \in new_vehicle_links
       THEN /\ new_vehicle_links' = new_vehicle_links \ {l}
            /\ task' = [task EXCEPT ![l] = "ok"]
       ELSE /\ task' = [task EXCEPT ![l] = "l119"]
            /\ UNCHANGED new_vehicle_links
    /\ UNCHANGED <<driver_vars, processed_vehicle_links, broken_vehicle_links,
                   vehicle_data, iter_vars, work_queue, disk_vars, hist_vars,
                   wave_appended>>
    /\ UNCHANGED table_vars

\* line 119: a KeyError raised inside the handler leaves the task
parse_car_page_except_remove(l) ==
    /\ task[l] = "l119"
    /\ IF l \in new_vehicle_links
       THEN /\ new_vehicle_links' = new_vehicle_links \ {l}
            /\ task' = [task EXCEPT ![l] = "l120"]
       ELSE /\ task' = [task EXCEPT ![l] = "died"]
            /\ UNCHANGED new_vehicle_links
    /\ UNCHANGED <<driver_vars, processed_vehicle_links, broken_vehicle_links,
                   vehicle_data, iter_vars, work_queue, disk_vars, hist_vars,
                   wave_appended>>
    /\ UNCHANGED table_vars

\* lines 120-121
parse_car_page_except_add_broken(l) ==
    /\ task[l] = "l120"
    /\ broken_vehicle_links' = broken_vehicle_links \cup {l}
    /\ task' = [task EXCEPT ![l] = "failed"]
    /\ UNCHANGED <<driver_vars, new_vehicle_links, processed_vehicle_links,
                   vehicle_data, iter_vars, work_queue, disk_vars, hist_vars,
                   wave_appended>>
    /\ UNCHANGED table_vars

parse_car_page(l) ==
    \/ parse_car_page_fetch(l)
    \/ parse_car_page_append(l)
    \/ parse_car_page_add_processed(l)
    \/ parse_car_page_remove_new(l)
    \/ parse_car_page_except_remove(l)
    \/ parse_car_page_except_add_broken(l)

Next ==
    \/ first_page
    \/ loop_exit
    \/ merge_links
    \/ submit_next
    \/ executor_exit
    \/ save_data
    \/ next_page
    \/ worker_start
    \/ \E l \in Links : parse_car_page(l)

Spec == Init /\ [][Next]_vars

\* parse_car_page called directly, after the crawl has ended, for a link that
\* had no task in the last wave.  new_vehicle_links is empty then, so the link
\* is not pending.
direct_call(l) ==
    /\ pc = "done"
    /\ task[l] = "idle"
    /\ task' = [task EXCEPT ![l] = "l108"]
    /\ UNCHANGED <<driver_vars, set_vars, vehicle_data, iter_vars, work_queue,
                   disk_vars, hist_vars, wave_appended>>
    /\ UNCHANGED table_vars

NextDirect ==
    \/ Next
    \/ \E l \in Links : direct_call(l)

\* the crawl followed by direct calls of parse_car_page
SpecDirect == Init /\ [][NextDirect]_vars

\* ------------------------------------------------------ parse_common_data
\* A text is a sequence of characters; "nb" stands for the non-breaking
\* space u'\xa0', which str.strip() treats as whitespace.
IsSpace(c) == c \in {" ", "nb"}

RECURSIVE LStrip(_)
LStrip(t) ==
    IF t = <<>> \/ ~IsSpace(Head(t)) THEN t ELSE LStrip(Tail(t))

RECURSIVE RStrip(_)
RStrip(t) ==
    IF t = <<>> \/ ~IsSpace(t[Len(t)]) THEN t
    ELSE RStrip(SubSeq(t, 1, Len(t) - 1))

\* str.strip()
strip(t) == RStrip(LStrip(t))

\* str.replace( u'\xa0', u'' )
replace_nbsp(t) == SelectSeq(t, LAMBDA c : c # "nb")

\* the td texts a row can hold: only whitespace, a padded word, and a
\* number grouped by a non-breaking space
CellTexts == {<<" ">>, <<" ", "a">>, <<"1", "nb", "0">>}

\* the rows table.find_all( 'tr' ) can return
TableRows ==
    UNION {[1..n -> CellTexts] : n \in 0..MaxCells}

\* line 156: the stripped texts of the row's cells that are not empty
cols(row) ==
    SelectSeq([i \in 1..Len(row) |-> strip(row[i])], LAMBDA t : t # <<>>)

\* line 158
exactly_two(elements) == Len(elements) = 2

\* StoreRow that keeps the entry a key already has (setdefault instead of
\* assignment)
StoreRow_first_wins(map, row) ==
    LET elements == SelectSeq(cols(row), LAMBDA ele : ele # <<>>)
    IN  IF exactly_two(elements) /\ elements[1] \notin DOMAIN map
        THEN [k \in (DOMAIN map) \cup {elements[1]} |->
                 IF k = elements[1] THEN replace_nbsp(elements[2])
                 ELSE map[k]]
        ELSE map

\* lines 157-159 for one row
StoreRow(map, row) ==
    LET elements == SelectSeq(cols(row), LAMBDA ele : ele # <<>>)
    IN  IF exactly_two(elements)
        THEN [k \in (DOMAIN map) \cup {elements[1]} |->
                 IF k = elements[1] THEN replace_nbsp(elements[2])
                 ELSE map[k]]
        ELSE map

\* the keys set by lines 146-150 before the table is read
PresetKeys == {<<"brand">>, <<"model">>, <<"model_group">>}

\* lines 144-150: brand and model are the texts of their anchors,
\* model_group is '' when the page has none
InitCommon ==
    /\ CrawlInit
    /\ rows = <<>>
    /\ \E group \in {<<>>, <<"a">>} :
          common = [k \in PresetKeys |->
                       IF k = <<"model_group">> THEN group ELSE <<"a">>]

\* lines 155-159: one turn of the loop over the rows of the table
parse_common_data_row ==
    /\ common # <<>>
    /\ Len(rows) < MaxRows
    /\ \E row \in TableRows :
          /\ rows' = Append(rows, row)
          /\ common' = StoreRow(common, row)
    /\ UNCHANGED crawl_vars

NextCommon == parse_common_data_row

\* parse_common_data on every table of at most MaxRows rows
SpecCommon == InitCommon /\ [][NextCommon]_vars

TypeOK ==
    /\ pc \in {"start", "loop", "dispatch", "exit", "save", "fetch", "done", "aborted"}
    /\ raised \in {"none", "first_page_fetch", "next_page_fetch", "set_changed_size"}
    /\ page \in 0..MaxPages
    /\ page_kind \in PageKinds \cup {"none"}
    /\ listed \in 0..MaxListings
    /\ next_page_html \subseteq Links
    /\ next_page_button_html \in {"a", "None"}
    /\ new_vehicle_links \subseteq Links
    /\ processed_vehicle_links \subseteq Links
    /\ broken_vehicle_links \subseteq Links
    /\ task \in [Links -> {"idle", "queued"} \cup RunningPcs \cup FinishedPcs]

\* ================================================================ claims

\* the executor block of the current wave has been left, normally or by the
\* RuntimeError of the set iterator
WaveCompleted ==
    \/ pc = "save"
    \/ pc = "aborted" /\ raised = "set_changed_size"

\* number of the three sets a link is a member of
SetsHolding(l) ==
    (IF l \in new_vehicle_links THEN 1 ELSE 0)
    + (IF l \in processed_vehicle_links THEN 1 ELSE 0)
    + (IF l \in broken_vehicle_links THEN 1 ELSE 0)

\* C1: in every reachable state, also in the middle of a task, every link
\* observed so far is in exactly one of new_vehicle_links,
\* processed_vehicle_links and broken_vehicle_links.
C1_ExactlyOneSet == \A l \in observed : SetsHolding(l) = 1

\* C2: when the executor block is left, new_vehicle_links is empty and every
\* link that was pending when the wave began is in exactly one of
\* processed_vehicle_links and broken_vehicle_links.
C2_WaveResolvesPending ==
    WaveCompleted =>
        /\ new_vehicle_links = {}
        /\ \A l \in wave_start :
              (l \in processed_vehicle_links) # (l \in broken_vehicle_links)

\* C3: right after the merge of a page's links, new_vehicle_links holds no
\* link that is in processed_vehicle_links or broken_vehicle_links.
C3_MergeSkipsKnownLinks ==
    (pc = "dispatch" /\ it_yielded = {}) =>
        new_vehicle_links \cap
            (processed_vehicle_links \cup broken_vehicle_links) = {}

\* C4: when the executor block is left, a task has been submitted for every
\* link that was pending when the wave began, whatever the interleaving of
\* the tasks with the driver's iteration.
C4_OneTaskPerPendingLink == WaveCompleted => Submitted = wave_start

\* C5: at every instant at most max_workers tasks are executing.
C5_AtMostMaxWorkers == Cardinality(Running) <= max_workers

\* C5 witness: the pool is saturated while a submitted link still waits
C5_Witness == Cardinality(Running) = max_workers /\ work_queue # <<>>

\* C6: outside the executor block no task is queued or executing: save_data
\* and the request for the next result page are reached only after every
\* task of the wave has returned, so the next wave starts on a drained pool.
C6_DriverWaitsForWave == pc \notin {"dispatch", "exit"} => PoolDrained

\* C6 witness: the second page's request is reached after a wave that ran tasks
C6_Witness ==
    /\ pc = "fetch"
    /\ Cardinality({l \in Links : task[l] \in FinishedPcs}) >= 2

\* C7: a task that failed has moved its link from new_vehicle_links to
\* broken_vehicle_links and appended no record, the failure has not reached
\* the driver, and when the executor block is left every other link of the
\* wave has had its task run to completion.
C7_FailureConfinedToTask ==
    \A l \in Links : task[l] = "failed" =>
        /\ l \notin new_vehicle_links
        /\ l \in broken_vehicle_links
        /\ l \notin wave_appended
        /\ raised = "none"
        /\ WaveCompleted => \A m \in wave_start : task[m] \in FinishedPcs

\* C8: a call of save_data with fewer than limit records writes no file and
\* leaves the buffer as it was; a call with at least limit records writes
\* exactly one batch file, holding every record of the buffer, and leaves
\* the buffer empty.
C8_SaveData ==
    [][pc = "save" /\ pc' # "save" =>
        IF Len(vehicle_data) < limit
        THEN /\ batch_writes' = 0
             /\ broken_writes' = 0
             /\ files' = files
             /\ broken_file' = broken_file
             /\ vehicle_data' = vehicle_data
        ELSE /\ batch_writes' = 1
             /\ \E t \in DOMAIN files' :
                   /\ files'[t] = vehicle_data
                   /\ \A u \in DOMAIN files : u # t =>
                         u \in DOMAIN files' /\ files'[u] = files[u]
                   /\ DOMAIN files' = DOMAIN files \cup {t}
             /\ vehicle_data' = <<>>]_vars

\* C8 witness: a call that flushed, after an earlier call had left a
\* non-empty buffer below the limit untouched
C8_Witness ==
    /\ pc = "fetch"
    /\ batch_writes = 1
    /\ vehicle_data = <<>>
    /\ wave >= 2
    /\ Len(wave_buffer) >= 1

\* the driver is inside a wave whose flush check has not run (yet)
WaveInFlight == pc \in {"dispatch", "exit", "save"} \/ WaveCompleted

C11_NoNextControlEndsNormally ==
    page_kind \in {"last", "nonextli"} =>
        /\ raised = "none"
        /\ pc \in {"loop", "done"}
        /\ next_page_button_html = "None"

\* C12: once a link is in broken_vehicle_links no task is started for it
\* again and it does not become a member of processed_vehicle_links.
C12_NoRetryOfBroken ==
    [][\A l \in broken_vehicle_links :
          /\ task'[l] = "l108" => task[l] = "l108"
          /\ l \in processed_vehicle_links' => l \in processed_vehicle_links]_vars

\* C13: no step removes a link from processed_vehicle_links or from
\* broken_vehicle_links.
C13_AppendOnlyHistory ==
    [][/\ processed_vehicle_links \subseteq processed_vehicle_links'
       /\ broken_vehicle_links \subseteq broken_vehicle_links']_vars

\* C13 witness: save_data has flushed while both sets were non-empty
C13_Witness ==
    /\ pc = "fetch"
    /\ batch_writes = 1
    /\ processed_vehicle_links # {}
    /\ broken_vehicle_links # {}

\* the list after one append per link of S
RECURSIVE AppendAll(_, _)
AppendAll(s, S) ==
    IF S = {} THEN s
    ELSE LET l == CHOOSE x \in S : TRUE
         IN  AppendAll(append(s, Record(l)), S \ {l})

\* C14: when the executor block is left the buffer holds what it held when
\* the wave began plus exactly one record for each task that succeeded.
C14_NoLostRecord ==
    WaveCompleted =>
        vehicle_data = AppendAll(wave_buffer, {l \in Links : task[l] = "ok"})

\* C14 witness: on a non-empty buffer one task has appended its record while
\* another, running at the same time, is about to append
C14_Witness ==
    /\ Len(wave_buffer) >= 1
    /\ \E l, m \in Links : task[l] = "l115" /\ task[m] = "l114"

\* C15: right after a save_data that wrote a batch file, the broken-links
\* file holds exactly the current broken_vehicle_links.
C15_BrokenFileIsFullSet ==
    (pc = "fetch" /\ batch_writes = 1) =>
        /\ broken_writes = 1
        /\ broken_file = <<broken_vehicle_links>>

\* C15 witness: a flush whose broken set includes a link broken in an
\* earlier wave
C15_Witness ==
    /\ pc = "fetch"
    /\ batch_writes = 1
    /\ broken_vehicle_links \ wave_start # {}

\* the links of the records of a list
LinksOf(s) == {s[i].link : i \in 1..Len(s)}

\* C18: every link in processed_vehicle_links has a record in the buffer or
\* in a batch file on disk.
C18_ProcessedHasRecord ==
    \A l \in processed_vehicle_links :
        \/ l \in LinksOf(vehicle_data)
        \/ \E t \in DOMAIN files : l \in LinksOf(files[t])

C20_NoFlushAtCrawlEnd ==
    [][(pc # "done" /\ pc' = "done") =>
          /\ vehicle_data' = vehicle_data
          /\ files' = files
          /\ broken_file' = broken_file
          /\ Len(vehicle_data') <= limit - 1
          /\ DOMAIN files' = {} => broken_file' = <<>>]_vars

\* C20 witness: the crawl ended with limit - 1 unsaved records and a broken
\* link, and no broken-links file was ever written
C20_Witness ==
    /\ pc = "done"
    /\ Len(vehicle_data) = limit - 1
    /\ Len(vehicle_data) >= 1
    /\ broken_vehicle_links # {}
    /\ broken_file = <<>>

\* C17: the steps of a task invoked for a link that is not in
\* new_vehicle_links (every step taken once the crawl has ended) leave
\* new_vehicle_links, processed_vehicle_links, broken_vehicle_links and
\* vehicle_data unchanged.
C17_NonPendingLinkUntouched ==
    [][pc = "done" =>
          /\ new_vehicle_links' = new_vehicle_links
          /\ processed_vehicle_links' = processed_vehicle_links
          /\ broken_vehicle_links' = broken_vehicle_links
          /\ vehicle_data' = vehicle_data]_vars

\* the row has exactly two non-empty cells
Qualifies(row) == Len(cols(row)) = 2

\* the keys the rows with exactly two non-empty cells provide
TableKeys == {cols(rows[i])[1] : i \in {j \in 1..Len(rows) : Qualifies(rows[j])}}

LastRowWith(k) ==
    CHOOSE i \in 1..Len(rows) :
        /\ Qualifies(rows[i]) /\ cols(rows[i])[1] = k
        /\ \A j \in (i + 1)..Len(rows) :
              ~(Qualifies(rows[j]) /\ cols(rows[j])[1] = k)

====
